---- MODULE Spec2Model ----
(***************************************************************************)
(* The in-memory record store of the Student Management System             *)
(* (models.py): four tables keyed by auto-incremented ids, cascading       *)
(* deletes, idempotent enrollment creation, grade upsert, student search   *)
(* and the GPA computation; and the routes over it (routes.py), which      *)
(* validate the forms, call the store and list its records.                *)
(*                                                                         *)
(* Specifications.                                                         *)
(*  - Spec: the store under any sequence of its operations.                *)
(*  - SpecGpa, SpecSearch: Student.calculate_gpa and Student.search over   *)
(*    the stores the operations can build.                                 *)
(*  - SpecRoutes: the store under any sequence of requests to the routes,  *)
(*    but for the five listings that write display fields to the stored    *)
(*    records.  These fields are read by no operation and no route.        *)
(*  - SpecStudentRoutes: the student table under create_student,           *)
(*    update_student and delete_student.                                   *)
(*  - SpecListings: the listings over the stores the routes can build.     *)
(*                                                                         *)
(* Representation.                                                         *)
(*  - A table (a Python dict id -> record) is a function whose domain is   *)
(*    the set of ids present.  A dict iterates in insertion order; keys    *)
(*    are only ever inserted with the current value of an increasing       *)
(*    counter, so insertion order is id order and "the first match of a    *)
(*    scan" is the match with the least id.                                *)
(*  - Floats: grade points are held in tenths (4.0 is 40, 3.7 is 37) and   *)
(*    a GPA in hundredths (3.43 is 343).                                   *)
(*  - Strings that the code inspects character by character (name, email,  *)
(*    code) are sequences of one-character strings.                        *)
(*  - The created_at / updated_at / enrolled_at stamps are written from    *)
(*    the wall clock and never read by any operation; they are left out    *)
(*    of the records.                                                      *)
(*  - issued, call and ret are history variables: the ids each table has   *)
(*    handed out so far, the last operation invoked with its identifying   *)
(*    arguments, and the value it returned.                                *)
(***************************************************************************)
EXTENDS Integers, Sequences, FiniteSets, TLC

VARIABLES students, courses, enrollments, grades,
          next_student_id, next_course_id, next_enrollment_id, next_grade_id,
          issued, call, ret

tables == <<students, courses, enrollments, grades>>
counters == <<next_student_id, next_course_id, next_enrollment_id, next_grade_id>>
store == <<tables, counters>>
vars == <<store, issued, call, ret>>

(***************************************************************************)
(* Bounds of the model.                                                    *)
(***************************************************************************)
\* total number of records ever created, over the four tables
MaxCreates == 3

\* number of course ids the stores of SpecGpa are built over
GpaCourses == 2

\* Python's None
None == [none |-> TRUE]

\* the form inputs the operations are exercised with
StudentInputs ==
    { [name |-> <<"J", "o">>, email |-> <<"j", "@", "x">>,
       phone |-> "555-0100", address |-> "1 Main St"],
      [name |-> <<"A", "l">>, email |-> <<"J", "O", "@", "x">>,
       phone |-> "555-0101", address |-> "2 High St"] }

CourseInputs ==
    { [code |-> <<"C", "S">>, name |-> "Algorithms",
       description |-> "core", credits |-> 3],
      [code |-> <<"M", "A">>, name |-> "Algebra",
       description |-> "core", credits |-> 4] }

\* the letter grades Grade.create is called with; "X" is not in the table
Letters == {"A", "X"}

\* the optional points argument of Grade.create, in tenths: << >> when it
\* is not supplied, <<p>> when p is
PointsArgs == {<< >>, <<0>>, <<25>>}

\* the credits of the courses of SpecGpa; Course.create takes any integer
GpaCredits == {-3, 0, 1, 3, 4}

\* the (letter_grade, points) arguments of the grades of SpecGpa
GpaGradeInputs ==
    { [letter_grade |-> "A", points |-> << >>],
      [letter_grade |-> "A", points |-> <<25>>],
      [letter_grade |-> "B", points |-> << >>],
      [letter_grade |-> "B+", points |-> << >>],
      [letter_grade |-> "X", points |-> << >>] }

(***************************************************************************)
(* dict helpers                                                            *)
(***************************************************************************)
\* d[k] = v
Put(d, k, v) == [i \in (DOMAIN d) \cup {k} |-> IF i = k THEN v ELSE d[i]]

\* for k in ks: del d[k]
Del(d, ks) == [i \in (DOMAIN d) \ ks |-> d[i]]

\* the least element of a non-empty set of ids: the first one a scan meets
First(S) == CHOOSE x \in S : \A y \in S : x <= y

Created == (next_student_id - 1) + (next_course_id - 1)
           + (next_enrollment_id - 1) + (next_grade_id - 1)

\* room left, within the bound, to allocate one more id
Room == Created < MaxCreates

\* the ids an operation is called with, for a table whose counter is `next`:
\* every id issued so far (present or deleted) and the first id not yet issued
Ids(next) == 1..next

(***************************************************************************)
(* DataStore.__init__                                                      *)
(***************************************************************************)
Init ==
    /\ students = << >>
    /\ courses = << >>
    /\ enrollments = << >>
    /\ grades = << >>
    /\ next_student_id = 1
    /\ next_course_id = 1
    /\ next_enrollment_id = 1
    /\ next_grade_id = 1
    /\ issued = [student |-> {}, course |-> {}, enrollment |-> {}, grade |-> {}]
    /\ call = [op |-> "__init__", args |-> << >>]
    /\ ret = None

(***************************************************************************)
(* Bulk deletes used by the cascades.  Each returns the table it leaves.   *)
(***************************************************************************)
\* a slip: the scan compares the wrong foreign key
Enrollment_delete_by_student_wrong_key(student_id) ==
    LET to_delete == {eid \in DOMAIN enrollments :
                         enrollments[eid].course_id = student_id}
    IN  Del(enrollments, to_delete)

Enrollment_delete_by_student(student_id) ==
    LET to_delete == {eid \in DOMAIN enrollments :
                         enrollments[eid].student_id = student_id}
    IN  Del(enrollments, to_delete)

Enrollment_delete_by_course(course_id) ==
    LET to_delete == {eid \in DOMAIN enrollments :
                         enrollments[eid].course_id = course_id}
    IN  Del(enrollments, to_delete)

Grade_delete_by_student(student_id) ==
    LET to_delete == {gid \in DOMAIN grades :
                         grades[gid].student_id = student_id}
    IN  Del(grades, to_delete)

\* a slip: the scan compares the wrong foreign key
Grade_delete_by_course_wrong_key(course_id) ==
    LET to_delete == {gid \in DOMAIN grades :
                         grades[gid].student_id = course_id}
    IN  Del(grades, to_delete)

Grade_delete_by_course(course_id) ==
    LET to_delete == {gid \in DOMAIN grades :
                         grades[gid].course_id = course_id}
    IN  Del(grades, to_delete)

\* a slip: the scan forgets the course, and takes every grade of the student
Grade_delete_by_student_course_any_course(student_id, course_id) ==
    LET to_delete == {gid \in DOMAIN grades :
                         grades[gid].student_id = student_id}
    IN  Del(grades, to_delete)

Grade_delete_by_student_course(student_id, course_id) ==
    LET to_delete == {gid \in DOMAIN grades :
                         /\ grades[gid].student_id = student_id
                         /\ grades[gid].course_id = course_id}
    IN  Del(grades, to_delete)

(***************************************************************************)
(* Student                                                                 *)
(***************************************************************************)
\* a slip: the id is taken from the size of the table, not from the counter
Student_new_id_from_len == Cardinality(DOMAIN students) + 1

\* the id Student.create gives the new record
Student_new_id == next_student_id

Student_create(inp) ==
    /\ LET student_id == Student_new_id
           student == [id |-> student_id, name |-> inp.name,
                       email |-> inp.email, phone |-> inp.phone,
                       address |-> inp.address]
       IN  /\ next_student_id' = next_student_id + 1
           /\ students' = Put(students, student_id, student)
           /\ ret' = student
           /\ issued' = [issued EXCEPT !.student = @ \cup {student_id}]
    /\ call' = [op |-> "Student.create", args |-> << >>]
    /\ UNCHANGED <<courses, enrollments, grades,
                   next_course_id, next_enrollment_id, next_grade_id>>

Student_get(student_id) ==
    IF student_id \in DOMAIN students THEN students[student_id] ELSE None

Student_update(student_id, inp) ==
    /\ call' = [op |-> "Student.update", args |-> <<student_id>>]
    /\ IF student_id \notin DOMAIN students
       THEN /\ ret' = None
            /\ UNCHANGED <<store, issued>>
       ELSE LET student == [students[student_id] EXCEPT
                               !.name = inp.name, !.email = inp.email,
                               !.phone = inp.phone, !.address = inp.address]
            IN  /\ students' = [students EXCEPT ![student_id] = student]
                /\ ret' = student
                /\ UNCHANGED <<courses, enrollments, grades, counters, issued>>

\* a slip: the cascade runs before the student is looked up
Student_delete_cascade_first(student_id) ==
    /\ call' = [op |-> "Student.delete", args |-> <<student_id>>]
    /\ enrollments' = Enrollment_delete_by_student(student_id)
    /\ grades' = Grade_delete_by_student(student_id)
    /\ students' = Del(students, {student_id})
    /\ ret' = (student_id \in DOMAIN students)
    /\ UNCHANGED <<courses, counters, issued>>

Student_delete(student_id) ==
    /\ call' = [op |-> "Student.delete", args |-> <<student_id>>]
    /\ IF student_id \notin DOMAIN students
       THEN /\ ret' = FALSE
            /\ UNCHANGED <<store, issued>>
       ELSE /\ enrollments' = Enrollment_delete_by_student(student_id)
            /\ grades' = Grade_delete_by_student(student_id)
            /\ students' = Del(students, {student_id})
            /\ ret' = TRUE
            /\ UNCHANGED <<courses, counters, issued>>

(***************************************************************************)
(* Course                                                                  *)
(***************************************************************************)
\* the id Course.create gives the new record
Course_new_id == next_course_id

Course_create(inp) ==
    /\ LET course_id == Course_new_id
           course == [id |-> course_id, code |-> inp.code, name |-> inp.name,
                      description |-> inp.description,
                      credits |-> inp.credits]
       IN  /\ next_course_id' = next_course_id + 1
           /\ courses' = Put(courses, course_id, course)
           /\ ret' = course
           /\ issued' = [issued EXCEPT !.course = @ \cup {course_id}]
    /\ call' = [op |-> "Course.create", args |-> << >>]
    /\ UNCHANGED <<students, enrollments, grades,
                   next_student_id, next_enrollment_id, next_grade_id>>

Course_get(course_id) ==
    IF course_id \in DOMAIN courses THEN courses[course_id] ELSE None

Course_update(course_id, inp) ==
    /\ call' = [op |-> "Course.update", args |-> <<course_id>>]
    /\ IF course_id \notin DOMAIN courses
       THEN /\ ret' = None
            /\ UNCHANGED <<store, issued>>
       ELSE LET course == [courses[course_id] EXCEPT
                              !.code = inp.code, !.name = inp.name,
                              !.description = inp.description,
                              !.credits = inp.credits]
            IN  /\ courses' = [courses EXCEPT ![course_id] = course]
                /\ ret' = course
                /\ UNCHANGED <<students, enrollments, grades, counters, issued>>

Course_delete(course_id) ==
    /\ call' = [op |-> "Course.delete", args |-> <<course_id>>]
    /\ IF course_id \notin DOMAIN courses
       THEN /\ ret' = FALSE
            /\ UNCHANGED <<store, issued>>
       ELSE /\ enrollments' = Enrollment_delete_by_course(course_id)
            /\ grades' = Grade_delete_by_course(course_id)
            /\ courses' = Del(courses, {course_id})
            /\ ret' = TRUE
            /\ UNCHANGED <<students, counters, issued>>

(***************************************************************************)
(* Enrollment                                                              *)
(***************************************************************************)
\* a slip: the scan compares the course with the student id
Enrollment_matching_wrong_key(student_id, course_id) ==
    {eid \in DOMAIN enrollments :
        /\ enrollments[eid].student_id = student_id
        /\ enrollments[eid].course_id = student_id}

\* the scan of Enrollment.create: ids of the enrollments of the pair
Enrollment_matching(student_id, course_id) ==
    {eid \in DOMAIN enrollments :
        /\ enrollments[eid].student_id = student_id
        /\ enrollments[eid].course_id = course_id}

\* the id Enrollment.create gives a new record
Enrollment_new_id == next_enrollment_id

Enrollment_create(student_id, course_id) ==
    /\ call' = [op |-> "Enrollment.create", args |-> <<student_id, course_id>>]
    /\ IF Enrollment_matching(student_id, course_id) # {}
       THEN /\ ret' = enrollments[First(Enrollment_matching(student_id, course_id))]
            /\ UNCHANGED <<store, issued>>
       ELSE /\ LET enrollment_id == Enrollment_new_id
                   enrollment == [id |-> enrollment_id,
                                  student_id |-> student_id,
                                  course_id |-> course_id]
               IN  /\ next_enrollment_id' = next_enrollment_id + 1
                   /\ enrollments' = Put(enrollments, enrollment_id, enrollment)
                   /\ ret' = enrollment
                   /\ issued' = [issued EXCEPT !.enrollment = @ \cup {enrollment_id}]
            /\ UNCHANGED <<students, courses, grades,
                           next_student_id, next_course_id, next_grade_id>>

Enrollment_get_by_student(student_id) ==
    {eid \in DOMAIN enrollments : enrollments[eid].student_id = student_id}

Enrollment_get_by_course(course_id) ==
    {eid \in DOMAIN enrollments : enrollments[eid].course_id = course_id}

Enrollment_delete(enrollment_id) ==
    /\ call' = [op |-> "Enrollment.delete", args |-> <<enrollment_id>>]
    /\ IF enrollment_id \notin DOMAIN enrollments
       THEN /\ ret' = FALSE
            /\ UNCHANGED <<store, issued>>
       ELSE /\ LET enrollment == enrollments[enrollment_id]
               IN  grades' = Grade_delete_by_student_course(
                                 enrollment.student_id, enrollment.course_id)
            /\ enrollments' = Del(enrollments, {enrollment_id})
            /\ ret' = TRUE
            /\ UNCHANGED <<students, courses, counters, issued>>

(***************************************************************************)
(* Grade                                                                   *)
(***************************************************************************)
\* points in tenths
GRADE_POINTS ==
    ("A+" :> 40) @@ ("A" :> 40) @@ ("A-" :> 37) @@
    ("B+" :> 33) @@ ("B" :> 30) @@ ("B-" :> 27) @@
    ("C+" :> 23) @@ ("C" :> 20) @@ ("C-" :> 17) @@
    ("D+" :> 13) @@ ("D" :> 10) @@ ("D-" :> 7) @@
    ("F" :> 0)

\* GRADE_POINTS.get(letter_grade, 0.0)
Grade_letter_to_points(letter_grade) ==
    IF letter_grade \in DOMAIN GRADE_POINTS THEN GRADE_POINTS[letter_grade] ELSE 0

\* The optional argument `points` is << >> when it is not supplied (None)
\* and <<p>> when p is supplied.  `points or Grade.letter_to_points(...)`:
\* Python takes the right operand whenever the left one is falsy, and both
\* None and 0.0 are falsy.
Grade_points_or(points, letter_grade) ==
    IF points # << >> /\ points[1] # 0
    THEN points[1]
    ELSE Grade_letter_to_points(letter_grade)

\* a slip: the scan forgets the course
Grade_matching_student_only(student_id, course_id) ==
    {gid \in DOMAIN grades : grades[gid].student_id = student_id}

\* a slip: the scan finds nothing, and every call inserts
Grade_matching_none(student_id, course_id) == {}

\* the scan of Grade.create: ids of the grades of the pair
Grade_matching(student_id, course_id) ==
    {gid \in DOMAIN grades :
        /\ grades[gid].student_id = student_id
        /\ grades[gid].course_id = course_id}

\* the id Grade.create gives a new record
Grade_new_id == next_grade_id

Grade_create(student_id, course_id, letter_grade, points) ==
    /\ call' = [op |-> "Grade.create",
                args |-> <<student_id, course_id, letter_grade, points>>]
    /\ IF Grade_matching(student_id, course_id) # {}
       THEN LET grade_id == First(Grade_matching(student_id, course_id))
                grade == [grades[grade_id] EXCEPT
                             !.letter_grade = letter_grade,
                             !.points = Grade_points_or(points, letter_grade)]
            IN  /\ grades' = [grades EXCEPT ![grade_id] = grade]
                /\ ret' = grade
                /\ UNCHANGED <<students, courses, enrollments, counters, issued>>
       ELSE /\ LET grade_id == Grade_new_id
                   grade == [id |-> grade_id,
                             student_id |-> student_id,
                             course_id |-> course_id,
                             letter_grade |-> letter_grade,
                             points |-> Grade_points_or(points, letter_grade)]
               IN  /\ next_grade_id' = next_grade_id + 1
                   /\ grades' = Put(grades, grade_id, grade)
                   /\ ret' = grade
                   /\ issued' = [issued EXCEPT !.grade = @ \cup {grade_id}]
            /\ UNCHANGED <<students, courses, enrollments,
                           next_student_id, next_course_id, next_enrollment_id>>

\* a slip: the filter is missing, and every grade is returned
Grade_get_by_student_unfiltered(student_id) == DOMAIN grades

Grade_get_by_student(student_id) ==
    {gid \in DOMAIN grades : grades[gid].student_id = student_id}

Grade_delete(grade_id) ==
    /\ call' = [op |-> "Grade.delete", args |-> <<grade_id>>]
    /\ IF grade_id \notin DOMAIN grades
       THEN /\ ret' = FALSE
            /\ UNCHANGED <<store, issued>>
       ELSE /\ grades' = Del(grades, {grade_id})
            /\ ret' = TRUE
            /\ UNCHANGED <<students, courses, enrollments, counters, issued>>

(***************************************************************************)
(* Student.calculate_gpa                                                   *)
(***************************************************************************)
RECURSIVE SumOver(_, _)
\* the sum of f[x] over the x in S
SumOver(f, S) ==
    IF S = {} THEN 0
    ELSE LET x == CHOOSE y \in S : TRUE
         IN  f[x] + SumOver(f, S \ {x})

\* a slip: the GPA takes the points stored on the grade
Gpa_grade_points_stored(grade) == grade.points

\* the grade points a grade enters the GPA with
Gpa_grade_points(grade) == Grade_letter_to_points(grade.letter_grade)

\* the grades of the student the loop does not skip: `if course:`
Gpa_counted(student_id) ==
    {gid \in Grade_get_by_student(student_id) :
        Course_get(grades[gid].course_id) # None}

\* round(total_points / total_credits, 2) for total_credits # 0, with
\* total_points in tenths and the result in hundredths.  The quotient is a
\* binary float: off a tie it rounds to the nearest hundredth; on a decimal
\* tie (...5 in the third place) the float lies a little above or a little
\* below the tie, depending on the operands, and round() follows it:
\* (4.0*3 + 3.7*1)/4 gives 3.92 and (4.0*3 + 3.3*1)/4 gives 3.83.
Round2(total_points, total_credits) ==
    LET n == IF total_credits < 0 THEN -(10 * total_points) ELSE 10 * total_points
        d == IF total_credits < 0 THEN -total_credits ELSE total_credits
        q == n \div d
        r == n % d
    IN  IF 2 * r < d THEN {q}
        ELSE IF 2 * r > d THEN {q + 1}
        ELSE {q, q + 1}

\* the values Student.calculate_gpa(student_id) can return
Student_calculate_gpa(student_id) ==
    LET student_grades == Grade_get_by_student(student_id)
        counted == Gpa_counted(student_id)
        total_points ==
            SumOver([gid \in counted |->
                        Gpa_grade_points(grades[gid])
                        * courses[grades[gid].course_id].credits], counted)
        total_credits ==
            SumOver([gid \in counted |->
                        courses[grades[gid].course_id].credits], counted)
    IN  IF student_grades = {} THEN {0}
        ELSE IF total_credits = 0 THEN {0}
        ELSE Round2(total_points, total_credits)

Calculate_gpa(student_id) ==
    /\ call' = [op |-> "Student.calculate_gpa", args |-> <<student_id>>]
    /\ \E gpa \in Student_calculate_gpa(student_id) : ret' = gpa
    /\ UNCHANGED <<store, issued>>

(***************************************************************************)
(* The store under any sequence of its operations.                         *)
(***************************************************************************)
Next ==
    \/ \E inp \in StudentInputs : Room /\ Student_create(inp)
    \/ \E id \in Ids(next_student_id), inp \in StudentInputs :
           Student_update(id, inp)
    \/ \E id \in Ids(next_student_id) : Student_delete(id)
    \/ \E inp \in CourseInputs : Room /\ Course_create(inp)
    \/ \E id \in Ids(next_course_id), inp \in CourseInputs :
           Course_update(id, inp)
    \/ \E id \in Ids(next_course_id) : Course_delete(id)
    \/ \E s \in Ids(next_student_id), c \in Ids(next_course_id) :
           (Room \/ Enrollment_matching(s, c) # {}) /\ Enrollment_create(s, c)
    \/ \E id \in Ids(next_enrollment_id) : Enrollment_delete(id)
    \/ \E s \in Ids(next_student_id), c \in Ids(next_course_id),
          l \in Letters, p \in PointsArgs :
           (Room \/ Grade_matching(s, c) # {}) /\ Grade_create(s, c, l, p)
    \/ \E id \in Ids(next_grade_id) : Grade_delete(id)
    \/ \E s \in Ids(next_student_id) : Calculate_gpa(s)

Spec == Init /\ [][Next]_vars

(***************************************************************************)
(* Student.calculate_gpa over the stores the operations can build.         *)
(* A store of InitGpa is the one left by: Student.create twice;            *)
(* Course.create GpaCourses times, and Course.delete of some of these      *)
(* courses before any grade exists; Grade.create for student 1 on some of  *)
(* the course ids, in increasing order, on deleted courses too (the store  *)
(* does not check the foreign keys); and possibly Grade.create for         *)
(* student 2 on course 1.                                                  *)
(***************************************************************************)
GpaSlots == 1..GpaCourses

\* the student records of the stores of SpecGpa
GpaStudent(id) ==
    IF id = 1
    THEN [id |-> 1, name |-> <<"J", "o">>, email |-> <<"j", "@", "x">>,
          phone |-> "555-0100", address |-> "1 Main St"]
    ELSE [id |-> id, name |-> <<"A", "l">>, email |-> <<"J", "O", "@", "x">>,
          phone |-> "555-0101", address |-> "2 High St"]

\* the slot of the n-th grade, for grades created on the slots G in
\* increasing order
NthSlot(G, n) == CHOOSE c \in G : Cardinality({x \in G : x <= c}) = n

InitGpa ==
    \E P \in SUBSET GpaSlots, G \in SUBSET GpaSlots, other \in BOOLEAN :
      \E credits \in [P -> GpaCredits], given \in [G -> GpaGradeInputs] :
        LET n == Cardinality(G)
            own == [i \in 1..n |->
                      LET c == NthSlot(G, i)
                      IN  [id |-> i, student_id |-> 1, course_id |-> c,
                           letter_grade |-> given[c].letter_grade,
                           points |-> Grade_points_or(given[c].points,
                                                      given[c].letter_grade)]]
            last == [id |-> n + 1, student_id |-> 2, course_id |-> 1,
                     letter_grade |-> "A",
                     points |-> Grade_points_or(<< >>, "A")]
        IN  /\ students = [id \in 1..2 |-> GpaStudent(id)]
            /\ courses = [c \in P |->
                            [id |-> c, code |-> <<"C", "S">>,
                             name |-> "Algorithms", description |-> "core",
                             credits |-> credits[c]]]
            /\ enrollments = << >>
            /\ grades = IF other THEN Put(own, n + 1, last) ELSE own
            /\ next_student_id = 3
            /\ next_course_id = GpaCourses + 1
            /\ next_enrollment_id = 1
            /\ next_grade_id = IF other THEN n + 2 ELSE n + 1
            /\ issued = [student |-> 1..2, course |-> GpaSlots,
                         enrollment |-> {},
                         grade |-> 1..(IF other THEN n + 1 ELSE n)]
            /\ call = [op |-> "__init__", args |-> << >>]
            /\ ret = None

NextGpa == \E s \in 1..2 : Calculate_gpa(s)

SpecGpa == InitGpa /\ [][NextGpa]_vars


(***************************************************************************)
(* Python str, as a sequence of one-character strings.                     *)
(***************************************************************************)
Uppercase == <<"A", "B", "C", "D", "E", "F", "G", "H", "I", "J", "K", "L", "M",
               "N", "O", "P", "Q", "R", "S", "T", "U", "V", "W", "X", "Y", "Z">>
Lowercase == <<"a", "b", "c", "d", "e", "f", "g", "h", "i", "j", "k", "l", "m",
               "n", "o", "p", "q", "r", "s", "t", "u", "v", "w", "x", "y", "z">>
Digits == <<"0", "1", "2", "3", "4", "5", "6", "7", "8", "9">>
Whitespace == {" ", "\t", "\n", "\r"}

\* the lower-case letter of each upper-case letter
ToLower == [c \in {Uppercase[i] : i \in 1..Len(Uppercase)} |->
               Lowercase[CHOOSE i \in 1..Len(Uppercase) : Uppercase[i] = c]]

\* the upper-case letter of each lower-case letter
ToUpper == [c \in {Lowercase[i] : i \in 1..Len(Lowercase)} |->
               Uppercase[CHOOSE i \in 1..Len(Lowercase) : Lowercase[i] = c]]

\* the number each digit stands for
DigitValue == [c \in {Digits[i] : i \in 1..Len(Digits)} |->
                  (CHOOSE i \in 1..Len(Digits) : Digits[i] = c) - 1]

\* a slip: the string is left as it is written
Lower_as_written(str) == str

\* str.lower()
Lower(str) ==
    [i \in 1..Len(str) |->
        IF str[i] \in DOMAIN ToLower THEN ToLower[str[i]] ELSE str[i]]

\* str.upper()
Upper(str) ==
    [i \in 1..Len(str) |->
        IF str[i] \in DOMAIN ToUpper THEN ToUpper[str[i]] ELSE str[i]]

\* str.strip()
Strip(str) ==
    LET solid == {i \in 1..Len(str) : str[i] \notin Whitespace}
    IN  IF solid = {} THEN << >>
        ELSE SubSeq(str, CHOOSE i \in solid : \A j \in solid : i <= j,
                         CHOOSE i \in solid : \A j \in solid : i >= j)

\* sub in str
Contains(sub, str) ==
    \E i \in 0..(Len(str) - Len(sub)) : SubSeq(str, i + 1, i + Len(sub)) = sub

RECURSIVE DecimalValue(_)
\* the number a sequence of digits and underscores writes in base ten
DecimalValue(ds) ==
    IF ds = << >> THEN 0
    ELSE IF ds[Len(ds)] = "_" THEN DecimalValue(SubSeq(ds, 1, Len(ds) - 1))
    ELSE 10 * DecimalValue(SubSeq(ds, 1, Len(ds) - 1))
         + DigitValue[ds[Len(ds)]]

\* int(text): << >> when it raises ValueError, <<n>> when it returns n.
\* Surrounding whitespace is dropped, one sign may lead, and the digits may
\* be grouped by single underscores.
int(text) ==
    LET body == Strip(text)
        signed == body # << >> /\ body[1] \in {"+", "-"}
        ds == IF signed THEN SubSeq(body, 2, Len(body)) ELSE body
        wellformed ==
            /\ ds # << >>
            /\ \A i \in 1..Len(ds) : ds[i] \in DOMAIN DigitValue \/ ds[i] = "_"
            /\ ds[1] # "_" /\ ds[Len(ds)] # "_"
            /\ \A i \in 1..(Len(ds) - 1) : ~(ds[i] = "_" /\ ds[i + 1] = "_")
    IN  IF ~wellformed THEN << >>
        ELSE IF signed /\ body[1] = "-" THEN <<0 - DecimalValue(ds)>>
        ELSE <<DecimalValue(ds)>>

RECURSIVE Str(_)
\* str(n) of a natural number n
Str(n) ==
    IF n < 10 THEN <<Digits[n + 1]>>
    ELSE Str(n \div 10) \o <<Digits[(n % 10) + 1]>>

(***************************************************************************)
(* Student.search                                                          *)
(***************************************************************************)
\* list(d.values()): the records of a table, in the order they were inserted
Values(d) ==
    LET nth(i) == CHOOSE k \in DOMAIN d :
                      Cardinality({j \in DOMAIN d : j <= k}) = i
    IN  [i \in 1..Cardinality(DOMAIN d) |-> d[nth(i)]]

Student_get_all == Values(students)

Student_search(query) ==
    IF query = << >> THEN Student_get_all
    ELSE LET lowered == Lower(query)
             Matches(student) == \/ Contains(lowered, Lower(student.name))
                                 \/ Contains(lowered, Lower(student.email))
         IN  SelectSeq(Values(students), Matches)

Search(query) ==
    /\ call' = [op |-> "Student.search", args |-> <<query>>]
    /\ ret' = Student_search(query)
    /\ UNCHANGED <<store, issued>>

(***************************************************************************)
(* Student.search over the student tables the operations can build: a      *)
(* store of InitSearch is the one left by Student.create SearchStudents    *)
(* times and Student.delete of some of these students.                     *)
(***************************************************************************)
\* number of students ever created in the stores of SpecSearch
SearchStudents == 2

SearchNames == {<<"J", "o">>, <<"j", "O", "e">>, <<"A", "l">>}
SearchEmails == {<<"a", "@", "x">>, <<"J", "O", "@", "x">>, <<"o", "j", "@", "x">>}
SearchQueries == {<< >>, <<"j", "o">>, <<"J", "O">>, <<"o">>, <<"@">>,
                  <<"e", "a">>, <<"z">>}

InitSearch ==
    \E K \in SUBSET (1..SearchStudents) :
      \E names \in [K -> SearchNames], emails \in [K -> SearchEmails] :
        /\ students = [id \in K |->
                          [id |-> id, name |-> names[id], email |-> emails[id],
                           phone |-> "555-0100", address |-> "1 Main St"]]
        /\ courses = << >>
        /\ enrollments = << >>
        /\ grades = << >>
        /\ next_student_id = SearchStudents + 1
        /\ next_course_id = 1
        /\ next_enrollment_id = 1
        /\ next_grade_id = 1
        /\ issued = [student |-> 1..SearchStudents, course |-> {},
                     enrollment |-> {}, grade |-> {}]
        /\ call = [op |-> "__init__", args |-> << >>]
        /\ ret = None

NextSearch == \E query \in SearchQueries : Search(query)

SpecSearch == InitSearch /\ [][NextSearch]_vars

(***************************************************************************)
(* The routes.  A request is one step.  A request the route answers        *)
(* without calling a store operation that writes leaves in `call` the      *)
(* route's name and in `ret` its response: the flash category and message  *)
(* and the template it renders, if any.  A request that goes through to a  *)
(* store operation leaves in `call` and `ret` that operation's call and    *)
(* result, as the operation sets them.                                     *)
(***************************************************************************)
\* flash(message, category) and redirect
Flash(route, category, message) ==
    /\ call' = [op |-> route, args |-> << >>]
    /\ ret' = [flash |-> category, message |-> message]
    /\ UNCHANGED <<store, issued>>

\* render_template(template, ...)
Render(route, template, context) ==
    /\ call' = [op |-> route, args |-> << >>]
    /\ ret' = [flash |-> "", message |-> "", template |-> template,
               context |-> context]
    /\ UNCHANGED <<store, issued>>

\* record[key] = value
SetField(record, key, value) == (key :> value) @@ record

(***************************************************************************)
(* Student routes                                                          *)
(***************************************************************************)
StudentFields == {"name", "email", "phone", "address"}

\* the fields of a student form, stripped
StudentStripped(form) ==
    [name |-> Strip(form.name), email |-> Strip(form.email),
     phone |-> Strip(form.phone), address |-> Strip(form.address)]

\* a slip: the emails are compared as they are written
SameEmail_as_written(stored, email) == stored = email

\* student['email'].lower() == email.lower()
SameEmail(stored, email) == Lower(stored) = Lower(email)

\* the message create_student rejects the form with, "" if it accepts it
create_student_rejects(form) ==
    IF ~(StudentFields \subseteq DOMAIN form) THEN "Error creating student"
    ELSE IF << >> \in {Strip(form[f]) : f \in StudentFields}
    THEN "All fields are required."
    ELSE IF \E id \in DOMAIN students :
                SameEmail(students[id].email, Strip(form.email))
    THEN "A student with this email already exists."
    ELSE ""

\* a slip: the student is created before the form is validated
route_create_student_then_validate(form) ==
    IF ~(StudentFields \subseteq DOMAIN form)
    THEN Flash("create_student", "danger", "Error creating student")
    ELSE /\ students' = Put(students, Student_new_id,
                            [id |-> Student_new_id] @@ StudentStripped(form))
         /\ next_student_id' = next_student_id + 1
         /\ issued' = [issued EXCEPT !.student = @ \cup {Student_new_id}]
         /\ call' = [op |-> "create_student", args |-> << >>]
         /\ ret' = IF create_student_rejects(form) # ""
                   THEN [flash |-> "danger",
                         message |-> create_student_rejects(form)]
                   ELSE [flash |-> "success", message |-> "created"]
         /\ UNCHANGED <<courses, enrollments, grades,
                        next_course_id, next_enrollment_id, next_grade_id>>

route_create_student(form) ==
    LET message == create_student_rejects(form)
    IN  IF message # "" THEN Flash("create_student", "danger", message)
        ELSE Student_create(StudentStripped(form))

route_new_student == Render("new_student", "student_form.html", << >>)

route_edit_student(student_id) ==
    IF Student_get(student_id) = None
    THEN Flash("edit_student", "danger", "Student not found.")
    ELSE Render("edit_student", "student_form.html", << >>)

\* the message update_student rejects the form with, "" if it goes on to
\* Student.update
update_student_rejects(student_id, form) ==
    IF ~(StudentFields \subseteq DOMAIN form) THEN "Error updating student"
    ELSE IF << >> \in {Strip(form[f]) : f \in StudentFields}
    THEN "All fields are required."
    ELSE IF \E id \in DOMAIN students :
                /\ id # student_id
                /\ SameEmail(students[id].email, Strip(form.email))
    THEN "A student with this email already exists."
    ELSE ""

route_update_student(student_id, form) ==
    LET message == update_student_rejects(student_id, form)
    IN  IF message # "" THEN Flash("update_student", "danger", message)
        ELSE Student_update(student_id, StudentStripped(form))

route_delete_student(student_id) ==
    IF Student_get(student_id) = None
    THEN Flash("delete_student", "danger", "Student not found.")
    ELSE Student_delete(student_id)

(***************************************************************************)
(* Course routes                                                           *)
(***************************************************************************)
CourseFields == {"code", "name", "description", "credits"}

\* the fields of a course form, as the routes read them; credits is << >>
\* when int() raises ValueError
CourseRead(form) ==
    [code |-> Upper(Strip(form.code)), name |-> Strip(form.name),
     description |-> Strip(form.description), credits |-> int(form.credits)]

\* the arguments the routes pass to Course.create and Course.update
CourseArgs(form) ==
    [CourseRead(form) EXCEPT !.credits = CourseRead(form).credits[1]]

\* `not all([code, name, description]) or credits <= 0`
CourseInvalid(read) ==
    \/ << >> \in {read.code, read.name, read.description}
    \/ read.credits[1] <= 0

\* the message create_course rejects the form with, "" if it accepts it
create_course_rejects(form) ==
    IF ~(CourseFields \subseteq DOMAIN form) THEN "Error creating course"
    ELSE IF CourseRead(form).credits = << >>
    THEN "Credits must be a valid number."
    ELSE IF CourseInvalid(CourseRead(form))
    THEN "All fields are required and credits must be positive."
    ELSE IF \E id \in DOMAIN courses : courses[id].code = CourseRead(form).code
    THEN "A course with this code already exists."
    ELSE ""

route_create_course(form) ==
    LET message == create_course_rejects(form)
    IN  IF message # "" THEN Flash("create_course", "danger", message)
        ELSE Course_create(CourseArgs(form))

route_new_course == Render("new_course", "course_form.html", << >>)

route_edit_course(course_id) ==
    IF Course_get(course_id) = None
    THEN Flash("edit_course", "danger", "Course not found.")
    ELSE Render("edit_course", "course_form.html", << >>)

\* the message update_course rejects the form with, "" if it goes on to
\* Course.update
update_course_rejects(course_id, form) ==
    IF ~(CourseFields \subseteq DOMAIN form) THEN "Error updating course"
    ELSE IF CourseRead(form).credits = << >>
    THEN "Credits must be a valid number."
    ELSE IF CourseInvalid(CourseRead(form))
    THEN "All fields are required and credits must be positive."
    ELSE IF \E id \in DOMAIN courses :
                id # course_id /\ courses[id].code = CourseRead(form).code
    THEN "A course with this code already exists."
    ELSE ""

route_update_course(course_id, form) ==
    LET message == update_course_rejects(course_id, form)
    IN  IF message # "" THEN Flash("update_course", "danger", message)
        ELSE Course_update(course_id, CourseArgs(form))

route_delete_course(course_id) ==
    IF Course_get(course_id) = None
    THEN Flash("delete_course", "danger", "Course not found.")
    ELSE Course_delete(course_id)

(***************************************************************************)
(* Enrollment routes                                                       *)
(***************************************************************************)
Enrollment_get(enrollment_id) ==
    IF enrollment_id \in DOMAIN enrollments
    THEN enrollments[enrollment_id] ELSE None

\* 'Unknown'
Unknown == <<"U", "n", "k", "n", "o", "w", "n">>

\* a slip: the student's name is written to the key 'name'
Enhanced_name_key(record) ==
    SetField(SetField(record, "name",
                      IF Student_get(record.student_id) = None THEN Unknown
                      ELSE Student_get(record.student_id).name),
             "course_code",
             IF Course_get(record.course_id) = None THEN Unknown
             ELSE Course_get(record.course_id).code)

\* an enrollment or a grade, with the display fields the listings write
Enhanced(record) ==
    LET student == Student_get(record.student_id)
        course == Course_get(record.course_id)
    IN  ("student_name" :> IF student = None THEN Unknown ELSE student.name)
        @@ ("course_code" :> IF course = None THEN Unknown ELSE course.code)
        @@ ("course_name" :> IF course = None THEN Unknown ELSE course.name)
        @@ record

route_enrollments ==
    /\ enrollments' = [id \in DOMAIN enrollments |-> Enhanced(enrollments[id])]
    /\ call' = [op |-> "enrollments", args |-> << >>]
    /\ ret' = [flash |-> "", message |-> "", template |-> "enrollments.html",
               context |-> << >>]
    /\ UNCHANGED <<students, courses, grades, counters, issued>>

route_new_enrollment ==
    IF DOMAIN students = {}
    THEN Flash("new_enrollment", "warning", "No students available.")
    ELSE IF DOMAIN courses = {}
    THEN Flash("new_enrollment", "warning", "No courses available.")
    ELSE Render("new_enrollment", "enrollment_form.html", << >>)

\* a slip: the course is not looked up
create_enrollment_rejects_student_only(form) ==
    IF "student_id" \notin DOMAIN form THEN "Error creating enrollment"
    ELSE IF int(form.student_id) = << >>
    THEN "Invalid student or course selection."
    ELSE IF "course_id" \notin DOMAIN form THEN "Error creating enrollment"
    ELSE IF int(form.course_id) = << >>
    THEN "Invalid student or course selection."
    ELSE IF Student_get(int(form.student_id)[1]) = None
    THEN "Selected student not found."
    ELSE ""

\* the message create_enrollment rejects the form with, "" if it accepts it
create_enrollment_rejects(form) ==
    IF "student_id" \notin DOMAIN form THEN "Error creating enrollment"
    ELSE IF int(form.student_id) = << >>
    THEN "Invalid student or course selection."
    ELSE IF "course_id" \notin DOMAIN form THEN "Error creating enrollment"
    ELSE IF int(form.course_id) = << >>
    THEN "Invalid student or course selection."
    ELSE IF Student_get(int(form.student_id)[1]) = None
    THEN "Selected student not found."
    ELSE IF Course_get(int(form.course_id)[1]) = None
    THEN "Selected course not found."
    ELSE ""

route_create_enrollment(form) ==
    LET message == create_enrollment_rejects(form)
    IN  IF message # "" THEN Flash("create_enrollment", "danger", message)
        ELSE Enrollment_create(int(form.student_id)[1], int(form.course_id)[1])

route_delete_enrollment(enrollment_id) ==
    IF Enrollment_get(enrollment_id) = None
    THEN Flash("delete_enrollment", "danger", "Enrollment not found.")
    ELSE Enrollment_delete(enrollment_id)

(***************************************************************************)
(* Grade routes                                                            *)
(***************************************************************************)
Grade_get(grade_id) ==
    IF grade_id \in DOMAIN grades THEN grades[grade_id] ELSE None

route_grades ==
    /\ grades' = [id \in DOMAIN grades |-> Enhanced(grades[id])]
    /\ call' = [op |-> "grades", args |-> << >>]
    /\ ret' = [flash |-> "", message |-> "", template |-> "grades.html",
               context |-> << >>]
    /\ UNCHANGED <<students, courses, enrollments, counters, issued>>

route_new_grade ==
    IF DOMAIN enrollments = {}
    THEN Flash("new_grade", "warning", "No enrollments available.")
    ELSE /\ enrollments' = [id \in DOMAIN enrollments |->
                               Enhanced(enrollments[id])]
         /\ call' = [op |-> "new_grade", args |-> << >>]
         /\ ret' = [flash |-> "", message |-> "", template |-> "grade_form.html",
                    context |-> << >>]
         /\ UNCHANGED <<students, courses, grades, counters, issued>>

\* a slip: any enrollment of the student will do
Enrolled_in_any(student_id, course_id) ==
    Enrollment_get_by_student(student_id) # {}

\* course_id in [e['course_id'] for e in Enrollment.get_by_student(student_id)]
Enrolled(student_id, course_id) ==
    course_id \in {enrollments[eid].course_id :
                      eid \in Enrollment_get_by_student(student_id)}

\* the message create_grade rejects the form with, "" if it accepts it
create_grade_rejects(form) ==
    IF "student_id" \notin DOMAIN form THEN "Error creating grade"
    ELSE IF int(form.student_id) = << >> THEN "Invalid input provided."
    ELSE IF "course_id" \notin DOMAIN form THEN "Error creating grade"
    ELSE IF int(form.course_id) = << >> THEN "Invalid input provided."
    ELSE IF "letter_grade" \notin DOMAIN form THEN "Error creating grade"
    ELSE IF form.letter_grade \notin DOMAIN GRADE_POINTS
    THEN "Invalid grade selected."
    ELSE IF ~Enrolled(int(form.student_id)[1], int(form.course_id)[1])
    THEN "Student is not enrolled in the selected course."
    ELSE ""

route_create_grade(form) ==
    LET message == create_grade_rejects(form)
    IN  IF message # "" THEN Flash("create_grade", "danger", message)
        ELSE Grade_create(int(form.student_id)[1], int(form.course_id)[1],
                          form.letter_grade, << >>)

route_edit_grade(grade_id) ==
    IF Grade_get(grade_id) = None
    THEN Flash("edit_grade", "danger", "Grade not found.")
    ELSE Render("edit_grade", "grade_form.html", << >>)

\* the message update_grade rejects the form with, "" if it accepts it
update_grade_rejects(grade_id, form) ==
    IF "letter_grade" \notin DOMAIN form THEN "Error updating grade"
    ELSE IF form.letter_grade \notin DOMAIN GRADE_POINTS
    THEN "Invalid grade selected."
    ELSE IF Grade_get(grade_id) = None THEN "Grade not found."
    ELSE ""

route_update_grade(grade_id, form) ==
    LET message == update_grade_rejects(grade_id, form)
    IN  IF message # "" THEN Flash("update_grade", "danger", message)
        ELSE Grade_create(Grade_get(grade_id).student_id,
                          Grade_get(grade_id).course_id,
                          form.letter_grade, << >>)

route_delete_grade(grade_id) ==
    IF Grade_get(grade_id) = None
    THEN Flash("delete_grade", "danger", "Grade not found.")
    ELSE Grade_delete(grade_id)

(***************************************************************************)
(* The listings that write to the stored records, the dashboard and the    *)
(* reports.  get_all() and search() return the stored dicts themselves, so *)
(* a key a listing sets on them stays in the store.                        *)
(***************************************************************************)
\* the results Student.calculate_gpa can give for the students ids, one
\* result per student
GpasOf(ids) ==
    {gpa \in [ids -> UNION {Student_calculate_gpa(id) : id \in ids}] :
        \A id \in ids : gpa[id] \in Student_calculate_gpa(id)}

route_students(search_query) ==
    LET students_list == IF search_query # << >>
                         THEN Student_search(search_query)
                         ELSE Student_get_all
        listed == {students_list[i].id : i \in 1..Len(students_list)}
    IN  \E gpa \in GpasOf(listed) :
          /\ students' = [id \in DOMAIN students |->
                            IF id \in listed
                            THEN SetField(students[id], "gpa", gpa[id])
                            ELSE students[id]]
          /\ call' = [op |-> "students", args |-> <<search_query>>]
          /\ ret' = [flash |-> "", message |-> "", template |-> "students.html",
                     context |-> << >>]
          /\ UNCHANGED <<courses, enrollments, grades, counters, issued>>

route_courses ==
    /\ courses' = [id \in DOMAIN courses |->
                      SetField(courses[id], "enrollment_count",
                               Cardinality(Enrollment_get_by_course(id)))]
    /\ call' = [op |-> "courses", args |-> << >>]
    /\ ret' = [flash |-> "", message |-> "", template |-> "courses.html",
               context |-> << >>]
    /\ UNCHANGED <<students, enrollments, grades, counters, issued>>

route_index ==
    Render("index", "index.html",
           [total_students |-> Cardinality(DOMAIN students),
            total_courses |-> Cardinality(DOMAIN courses),
            total_enrollments |-> Cardinality(DOMAIN enrollments),
            total_grades |-> Cardinality(DOMAIN grades)])

\* the students whose GPA is left in `gpas` by the filter `gpa > 0`
reports_gpas(gpa) == {id \in DOMAIN students : gpa[id] > 0}

\* round(sum(gpas) / len(gpas), 2), in hundredths like the GPAs it averages:
\* the quotient of the sum, taken in tenths, by ten times the length
reports_avg_gpa(gpa) ==
    IF reports_gpas(gpa) = {} THEN {0}
    ELSE Round2(SumOver(gpa, reports_gpas(gpa)),
                10 * Cardinality(reports_gpas(gpa)))

route_reports ==
    \E gpa \in GpasOf(DOMAIN students) :
      \E avg_gpa \in reports_avg_gpa(gpa) :
        Render("reports", "reports.html",
               [gpas |-> reports_gpas(gpa),
                stats |-> [total_students |-> Cardinality(DOMAIN students),
                           total_courses |-> Cardinality(DOMAIN courses),
                           total_enrollments |-> Cardinality(DOMAIN enrollments),
                           total_grades |-> Cardinality(DOMAIN grades),
                           total_credits |->
                               SumOver([id \in DOMAIN courses |->
                                           courses[id].credits], DOMAIN courses),
                           average_gpa |-> avg_gpa],
                student_stats |-> gpa])

(***************************************************************************)
(* The store under any sequence of requests to the routes.                 *)
(***************************************************************************)
\* total number of records the requests of one run create
MaxRouteCreates == 4

Blank == <<" ">>

\* the forms the student routes are posted: two that differ in every field,
\* one with a blank name, one without the address
StudentForms ==
    { [name |-> <<"J", "o", " ">>, email |-> <<"j", "@", "x">>,
       phone |-> <<"5">>, address |-> <<"S">>],
      [name |-> <<"A", "l">>, email |-> <<" ", "A", "@", "x">>,
       phone |-> <<"6">>, address |-> <<"T">>],
      [name |-> Blank, email |-> <<"b", "@", "x">>,
       phone |-> <<"5">>, address |-> <<"S">>],
      [name |-> <<"J", "o">>, email |-> <<"j", "@", "x">>, phone |-> <<"5">>] }

\* the forms the course routes are posted: two with different codes, and
\* four the routes reject
CourseForms ==
    { [code |-> <<" ", "c", "s">>, name |-> <<"A">>, description |-> <<"d">>,
       credits |-> <<"3", " ">>],
      [code |-> <<"M", "a">>, name |-> <<"B">>, description |-> <<"d">>,
       credits |-> <<"4">>],
      [code |-> <<"p", "h">>, name |-> <<"B">>, description |-> <<"d">>,
       credits |-> <<"0">>],
      [code |-> <<"p", "h">>, name |-> <<"B">>, description |-> <<"d">>,
       credits |-> <<"x">>],
      [code |-> <<"p", "h">>, name |-> <<"B">>, description |-> Blank,
       credits |-> <<"4">>],
      [code |-> <<"p", "h">>, name |-> <<"B">>, description |-> <<"d">>] }

\* the letter grades of the grade table the grade routes are posted
RouteLetters == {"A", "F"}

\* the forms create_enrollment is posted: every pair of ids up to the
\* counters, and two it rejects whatever the store
EnrollmentForms ==
    { [student_id |-> Str(s), course_id |-> Str(c)] :
          s \in Ids(next_student_id), c \in Ids(next_course_id) }
    \cup { [student_id |-> <<"x">>, course_id |-> <<"1">>],
           [student_id |-> <<"1">>] }

\* the forms create_grade is posted: every pair of ids up to the counters
\* with each letter, and three it rejects whatever the store; "X" is not in
\* the grade table
GradeForms ==
    { [student_id |-> Str(s), course_id |-> Str(c), letter_grade |-> l] :
          s \in Ids(next_student_id), c \in Ids(next_course_id),
          l \in RouteLetters }
    \cup { [student_id |-> <<"1">>, course_id |-> <<"1">>, letter_grade |-> "X"],
           [student_id |-> <<"1">>, course_id |-> <<"y">>, letter_grade |-> "A"],
           [student_id |-> <<"1">>, course_id |-> <<"1">>] }

UpdateGradeForms ==
    {[letter_grade |-> l] : l \in RouteLetters \cup {"X"}} \cup {<< >>}

\* the records created, the one this request creates included, are within
\* the bound
RouteRoom == (Created <= MaxRouteCreates)'

NextRoutes ==
    \/ route_index
    \/ route_new_student
    \/ \E form \in StudentForms : route_create_student(form) /\ RouteRoom
    \/ \E id \in Ids(next_student_id) : route_edit_student(id)
    \/ \E id \in Ids(next_student_id), form \in StudentForms :
           route_update_student(id, form)
    \/ \E id \in Ids(next_student_id) : route_delete_student(id)
    \/ route_new_course
    \/ \E form \in CourseForms : route_create_course(form) /\ RouteRoom
    \/ \E id \in Ids(next_course_id) : route_edit_course(id)
    \/ \E id \in Ids(next_course_id), form \in CourseForms :
           route_update_course(id, form)
    \/ \E id \in Ids(next_course_id) : route_delete_course(id)
    \/ route_new_enrollment
    \/ \E form \in EnrollmentForms :
           route_create_enrollment(form) /\ RouteRoom
    \/ \E id \in Ids(next_enrollment_id) : route_delete_enrollment(id)
    \/ \E form \in GradeForms : route_create_grade(form) /\ RouteRoom
    \/ \E id \in Ids(next_grade_id) : route_edit_grade(id)
    \/ \E id \in Ids(next_grade_id), form \in UpdateGradeForms :
           route_update_grade(id, form) /\ RouteRoom
    \/ \E id \in Ids(next_grade_id) : route_delete_grade(id)
    \/ route_reports

SpecRoutes == Init /\ [][NextRoutes]_vars

(***************************************************************************)
(* The student table under any sequence of requests to create_student,     *)
(* update_student and delete_student.                                      *)
(***************************************************************************)
\* the forms of StudentForms, and two whose emails differ from the first's
\* in case and in surrounding blanks only
StudentEmailForms ==
    StudentForms
    \cup { [name |-> <<"A", "l">>, email |-> <<" ", "J", "@", "X", " ">>,
            phone |-> <<"6">>, address |-> <<"T">>],
           [name |-> <<"J", "o">>, email |-> <<"J", "@", "x">>,
            phone |-> <<"5">>, address |-> <<"S">>] }

NextStudentRoutes ==
    \/ \E form \in StudentEmailForms : route_create_student(form) /\ RouteRoom
    \/ \E id \in Ids(next_student_id), form \in StudentEmailForms :
           route_update_student(id, form)
    \/ \E id \in Ids(next_student_id) : route_delete_student(id)

SpecStudentRoutes == Init /\ [][NextStudentRoutes]_vars

(***************************************************************************)
(* The listings over the stores the routes can build.  A store of          *)
(* InitListings is the one left by create_student twice, create_course     *)
(* twice, create_enrollment for up to ListingPairs of the four pairs, in   *)
(* increasing order, and create_grade for some of these pairs, in          *)
(* increasing order.  update_student is there to change a name that the    *)
(* listings have already copied.                                           *)
(***************************************************************************)
\* number of enrollments in the stores of SpecListings
ListingPairs == 2

ListingStudent(id) ==
    IF id = 1
    THEN [id |-> 1, name |-> <<"J", "o">>, email |-> <<"j", "@", "x">>,
          phone |-> <<"5">>, address |-> <<"S">>]
    ELSE [id |-> id, name |-> <<"A", "l">>, email |-> <<"A", "@", "x">>,
          phone |-> <<"6">>, address |-> <<"T">>]

ListingCourse(id) ==
    IF id = 1
    THEN [id |-> 1, code |-> <<"C", "S">>, name |-> <<"A">>,
          description |-> <<"d">>, credits |-> 3]
    ELSE [id |-> id, code |-> <<"M", "A">>, name |-> <<"B">>,
          description |-> <<"d">>, credits |-> 4]

\* the n-th pair of the set of pairs E, in increasing order
NthPair(E, n) ==
    CHOOSE p \in E :
        Cardinality({q \in E : q[1] < p[1] \/ (q[1] = p[1] /\ q[2] <= p[2])}) = n

\* the forms update_student is posted in SpecListings: both keep the email
\* of student 1, one changes the name
ListingForms ==
    { [name |-> <<"J", "o">>, email |-> <<"j", "@", "x">>,
       phone |-> <<"5">>, address |-> <<"S">>],
      [name |-> <<"B", "o">>, email |-> <<"j", "@", "x">>,
       phone |-> <<"5">>, address |-> <<"S">>] }

\* the search queries the students listing is asked with
ListingQueries == {<< >>, <<"J">>}

InitListings ==
    \E E \in SUBSET ((1..2) \X (1..2)) :
      \E G \in SUBSET E :
        \E letter \in [G -> RouteLetters] :
          /\ Cardinality(E) <= ListingPairs
          /\ students = [id \in 1..2 |-> ListingStudent(id)]
          /\ courses = [id \in 1..2 |-> ListingCourse(id)]
          /\ enrollments =
                 [i \in 1..Cardinality(E) |->
                     [id |-> i, student_id |-> NthPair(E, i)[1],
                      course_id |-> NthPair(E, i)[2]]]
          /\ grades =
                 [i \in 1..Cardinality(G) |->
                     [id |-> i, student_id |-> NthPair(G, i)[1],
                      course_id |-> NthPair(G, i)[2],
                      letter_grade |-> letter[NthPair(G, i)],
                      points |-> Grade_points_or(<< >>, letter[NthPair(G, i)])]]
          /\ next_student_id = 3
          /\ next_course_id = 3
          /\ next_enrollment_id = Cardinality(E) + 1
          /\ next_grade_id = Cardinality(G) + 1
          /\ issued = [student |-> 1..2, course |-> 1..2,
                       enrollment |-> 1..Cardinality(E),
                       grade |-> 1..Cardinality(G)]
          /\ call = [op |-> "__init__", args |-> << >>]
          /\ ret = None

NextListings ==
    \/ route_index
    \/ \E search_query \in ListingQueries : route_students(search_query)
    \/ route_courses
    \/ route_enrollments
    \/ route_grades
    \/ route_new_grade
    \/ route_reports
    \/ \E id \in 1..2, form \in ListingForms : route_update_student(id, form)

SpecListings == InitListings /\ [][NextListings]_vars

(***************************************************************************)
(* Properties                                                              *)
(***************************************************************************)
\* record k of table d is in table e, as it was
Kept(d, e, k) == k \in DOMAIN e /\ e[k] = d[k]

\* the step is the call op(args) of an operation of the store
Called(op, args) == call'.op = op /\ call'.args = args

\* C1: Student.delete(s) of an existing student s leaves no enrollment and
\* no grade of s, and leaves the enrollments and grades of the other
\* students, the courses and the other students as they were.
C1_StudentDeleteCascade ==
    [][\A s \in DOMAIN students :
          Called("Student.delete", <<s>>) =>
             /\ \A e \in DOMAIN enrollments' : enrollments'[e].student_id # s
             /\ \A g \in DOMAIN grades' : grades'[g].student_id # s
             /\ \A e \in DOMAIN enrollments :
                   enrollments[e].student_id # s => Kept(enrollments, enrollments', e)
             /\ \A g \in DOMAIN grades :
                   grades[g].student_id # s => Kept(grades, grades', g)
             /\ courses' = courses
             /\ \A t \in DOMAIN students \ {s} : Kept(students, students', t)
             /\ s \notin DOMAIN students'
      ]_vars

\* a student has been deleted, an enrollment went with it, and an enrollment
\* of another student is still there
C1_Witness ==
    /\ call.op = "Student.delete"
    /\ ret = TRUE
    /\ \E e \in issued.enrollment : e \notin DOMAIN enrollments
    /\ \E e \in DOMAIN enrollments : enrollments[e].student_id # call.args[1]

\* C2: Course.delete(c) of an existing course c leaves no enrollment and no
\* grade of c, and leaves the enrollments and grades of the other courses,
\* the students and the other courses as they were.
C2_CourseDeleteCascade ==
    [][\A c \in DOMAIN courses :
          Called("Course.delete", <<c>>) =>
             /\ \A e \in DOMAIN enrollments' : enrollments'[e].course_id # c
             /\ \A g \in DOMAIN grades' : grades'[g].course_id # c
             /\ \A e \in DOMAIN enrollments :
                   enrollments[e].course_id # c => Kept(enrollments, enrollments', e)
             /\ \A g \in DOMAIN grades :
                   grades[g].course_id # c => Kept(grades, grades', g)
             /\ students' = students
             /\ \A d \in DOMAIN courses \ {c} : Kept(courses, courses', d)
             /\ c \notin DOMAIN courses'
      ]_vars

\* a course has been deleted, a grade went with it, and a grade on another
\* course is still there
C2_Witness ==
    /\ call.op = "Course.delete"
    /\ ret = TRUE
    /\ \E g \in issued.grade : g \notin DOMAIN grades
    /\ \E g \in DOMAIN grades : grades[g].course_id # call.args[1]

\* C3: Enrollment.delete(e) of an existing enrollment e of the pair (s, c)
\* removes e and every grade of the pair (s, c); the grades of the other
\* pairs, the other enrollments, the students and the courses are as they
\* were.
C3_EnrollmentDeleteCascade ==
    [][\A e \in DOMAIN enrollments :
          Called("Enrollment.delete", <<e>>) =>
             LET s == enrollments[e].student_id
                 c == enrollments[e].course_id
             IN  /\ e \notin DOMAIN enrollments'
                 /\ \A g \in DOMAIN grades' :
                       ~(grades'[g].student_id = s /\ grades'[g].course_id = c)
                 /\ \A g \in DOMAIN grades :
                       ~(grades[g].student_id = s /\ grades[g].course_id = c)
                          => Kept(grades, grades', g)
                 /\ \A f \in DOMAIN enrollments \ {e} :
                       Kept(enrollments, enrollments', f)
                 /\ students' = students
                 /\ courses' = courses
      ]_vars

\* an enrollment has been deleted and a grade, which is then of another
\* pair, is still there
C3_Witness ==
    /\ call.op = "Enrollment.delete"
    /\ ret = TRUE
    /\ call.args[1] \notin DOMAIN enrollments
    /\ grades # << >>

\* C4: ids are never reused.  In each of the four tables the id that create
\* gives a new record is greater than every id the table has handed out
\* before, deleted records included, and the first id handed out is 1.
FreshId(id, before) ==
    /\ \A i \in before : id > i
    /\ before = {} => id = 1

\* record r is in table d under its id
Stored(d, r) == r.id \in DOMAIN d /\ d[r.id] = r

C4_IdsNeverReused ==
    [][/\ call'.op = "Student.create" =>
             FreshId(ret'.id, issued.student) /\ Stored(students', ret')
       /\ call'.op = "Course.create" =>
             FreshId(ret'.id, issued.course) /\ Stored(courses', ret')
       /\ (/\ call'.op = "Enrollment.create"
           /\ \A e \in DOMAIN enrollments :
                 <<enrollments[e].student_id, enrollments[e].course_id>>
                    # <<call'.args[1], call'.args[2]>>) =>
             FreshId(ret'.id, issued.enrollment)
             /\ Stored(enrollments', ret')
       /\ (/\ call'.op = "Grade.create"
           /\ \A g \in DOMAIN grades :
                 <<grades[g].student_id, grades[g].course_id>>
                    # <<call'.args[1], call'.args[2]>>) =>
             FreshId(ret'.id, issued.grade) /\ Stored(grades', ret')
      ]_vars

\* the student and its enrollment are gone, and the next enrollment has
\* been given the id 2
C4_Witness ==
    /\ call.op = "Enrollment.create"
    /\ ret.id = 2
    /\ DOMAIN enrollments = {2}
    /\ issued.student = {1}
    /\ students = << >>

\* C5: Enrollment.create(s, c) for a pair that has an enrollment returns
\* that record, with its id, and changes neither the enrollments nor
\* next_enrollment_id, however often it is called.
C5_EnrollmentCreateIdempotent ==
    [][call'.op = "Enrollment.create" =>
          LET s == call'.args[1]
              c == call'.args[2]
              existing == {e \in DOMAIN enrollments :
                              /\ enrollments[e].student_id = s
                              /\ enrollments[e].course_id = c}
          IN  existing # {} =>
                 /\ \E e \in existing : ret' = enrollments[e] /\ ret'.id = e
                 /\ enrollments' = enrollments
                 /\ next_enrollment_id' = next_enrollment_id
      ]_vars

\* a call has returned an enrollment that is not the last one created
C5_Witness ==
    /\ call.op = "Enrollment.create"
    /\ ret.id + 1 < next_enrollment_id
    /\ Stored(enrollments, ret)

\* C6: Grade.create(s, c, l, p) for a pair that has a grade overwrites
\* letter_grade and points on that record and returns it, with its id; the
\* number of grades and next_grade_id do not change.  For a pair without a
\* grade it inserts exactly one grade, with a fresh id.
C6_GradeCreateUpsert ==
    [][call'.op = "Grade.create" =>
          LET s == call'.args[1]
              c == call'.args[2]
              l == call'.args[3]
              p == call'.args[4]
              existing == {g \in DOMAIN grades :
                              /\ grades[g].student_id = s
                              /\ grades[g].course_id = c}
              Written(g) ==
                  /\ g \in DOMAIN grades'
                  /\ ret' = grades'[g]
                  /\ ret'.id = g
                  /\ ret'.student_id = s
                  /\ ret'.course_id = c
                  /\ ret'.letter_grade = l
                  /\ p = << >> => ret'.points = Grade_letter_to_points(l)
                  /\ (p # << >> /\ p[1] # 0) => ret'.points = p[1]
                  /\ \A h \in DOMAIN grades \ {g} : Kept(grades, grades', h)
          IN  IF existing # {}
              THEN /\ \E g \in existing : Written(g)
                   /\ DOMAIN grades' = DOMAIN grades
                   /\ next_grade_id' = next_grade_id
              ELSE \E g \in DOMAIN grades' :
                      /\ g \notin issued.grade
                      /\ DOMAIN grades' = DOMAIN grades \cup {g}
                      /\ Written(g)
      ]_vars

\* a call has overwritten the letter on a grade that is not the last one
\* created
C6_Witness ==
    /\ call.op = "Grade.create"
    /\ ret.id + 1 < next_grade_id
    /\ ret.letter_grade = "X"
    /\ ret.points = 25

\* C7: (student_id, course_id) is a key of the enrollments and of the
\* grades, in every reachable state; so Enrollment.delete removes at most
\* one grade.
PairIsKey(d) ==
    \A i, j \in DOMAIN d :
        (d[i].student_id = d[j].student_id /\ d[i].course_id = d[j].course_id)
           => i = j

C7_PairIsKey ==
    /\ [](PairIsKey(enrollments) /\ PairIsKey(grades))
    /\ [][call'.op = "Enrollment.delete" =>
             Cardinality(DOMAIN grades \ DOMAIN grades') <= 1]_vars

\* deleting the one enrollment there was has removed the one grade there was
C7_Witness ==
    /\ call.op = "Enrollment.delete"
    /\ ret = TRUE
    /\ issued.grade = {1}
    /\ grades = << >>
    /\ issued.enrollment = {1}

\* C8: after Grade.create(s, c, l, p) the points of the record are the
\* points p passed, whenever p is passed (0.0 included), and the table's
\* points of l (0.0 for a letter not in it) when p is not passed.
C8_PointsOverrideOrTable ==
    call.op = "Grade.create" =>
        LET l == call.args[3]
            p == call.args[4]
            expected == IF p # << >> THEN p[1] ELSE Grade_letter_to_points(l)
        IN  /\ ret.points = expected
            /\ grades[ret.id].points = expected

\* the grades of student s whose course exists
GradedOnCourse(s) ==
    {g \in DOMAIN grades :
        grades[g].student_id = s /\ grades[g].course_id \in DOMAIN courses}

\* the credits of the course of grade g
CreditsOf(g) == courses[grades[g].course_id].credits

\* sum of table points (tenths) * credits, and sum of credits, over G
WeightedPoints(G) ==
    SumOver([g \in G |-> Grade_letter_to_points(grades[g].letter_grade)
                            * CreditsOf(g)], G)

TotalCredits(G) == SumOver([g \in G |-> CreditsOf(g)], G)

Abs(x) == IF x < 0 THEN -x ELSE x

\* the grades G are an "A" on a 3-credit course and a "B" on a 4-credit one
IsAOn3AndBOn4(G) ==
    \E a, b \in G :
        /\ G = {a, b}
        /\ grades[a].letter_grade = "A" /\ CreditsOf(a) = 3
        /\ grades[b].letter_grade = "B" /\ CreditsOf(b) = 4

\* C9: Student.calculate_gpa(s) is the credit-weighted mean of the table
\* points of the letters (not of the stored points) over the grades of s
\* whose course exists, rounded to 2 decimal places: a hundredth nearest to
\* sum(points * credits) / sum(credits).  For an A on a 3-credit course and
\* a B on a 4-credit course it is 3.43.
C9_GpaIsWeightedMean ==
    call.op = "Student.calculate_gpa" =>
        LET G == GradedOnCourse(call.args[1])
        IN  /\ TotalCredits(G) # 0 =>
                  2 * Abs(ret * TotalCredits(G) - 10 * WeightedPoints(G))
                     <= Abs(TotalCredits(G))
            /\ IsAOn3AndBOn4(G) => ret = 343

\* 3.43 has been returned for an A, stored with 2.5 points, on a 3-credit
\* course and a B on a 4-credit course
C9_Witness ==
    /\ call.op = "Student.calculate_gpa"
    /\ ret = 343
    /\ IsAOn3AndBOn4(GradedOnCourse(call.args[1]))
    /\ \E g \in GradedOnCourse(call.args[1]) :
          grades[g].letter_grade = "A" /\ grades[g].points = 25

\* C10: Student.calculate_gpa(s) returns 0.0 when s has no grades, when no
\* grade of s is on a course that exists, and when the credits of the
\* courses of its grades sum to zero; it returns a number in every case
\* and leaves the store as it was.
C10_GpaZeroCases ==
    [][call'.op = "Student.calculate_gpa" =>
          LET s == call'.args[1]
              G == GradedOnCourse(s)
          IN  /\ store' = store
              /\ ret' \in Int
              /\ (\A g \in DOMAIN grades : grades[g].student_id # s) => ret' = 0
              /\ G = {} => ret' = 0
              /\ TotalCredits(G) = 0 => ret' = 0
      ]_vars

\* 0.0 has been returned for grades on two courses whose credits, 3 and -3,
\* sum to zero while the weighted points do not
C10_Witness ==
    /\ call.op = "Student.calculate_gpa"
    /\ ret = 0
    /\ Cardinality(GradedOnCourse(call.args[1])) = 2
    /\ TotalCredits(GradedOnCourse(call.args[1])) = 0
    /\ WeightedPoints(GradedOnCourse(call.args[1])) # 0

(***************************************************************************)
(* C11: delete of an id that is not in the table of its kind returns false,*)
(* update of an id that is not in the table returns the absent value, and  *)
(* either one leaves the four tables and the four counters as they were:   *)
(* Student.delete and Course.delete of an absent id cascade to nothing,    *)
(* even when enrollments or grades carry that id as a foreign key.         *)
(* (Only Student and Course have an update operation.)                     *)
(***************************************************************************)
\* the table an operation named op looks its id up in
TableOf(op) ==
    CASE op \in {"Student.delete", "Student.update"} -> students
      [] op \in {"Course.delete", "Course.update"} -> courses
      [] op = "Enrollment.delete" -> enrollments
      [] op = "Grade.delete" -> grades

C11_AbsentIdNoOp ==
    [][/\ (/\ call'.op \in {"Student.delete", "Course.delete",
                             "Enrollment.delete", "Grade.delete"}
            /\ call'.args[1] \notin DOMAIN TableOf(call'.op))
           => (ret' = FALSE /\ store' = store)
       /\ (/\ call'.op \in {"Student.update", "Course.update"}
            /\ call'.args[1] \notin DOMAIN TableOf(call'.op))
           => (ret' = None /\ store' = store)]_vars

\* Student.delete of an absent id has returned false while an enrollment and
\* a grade carry that id
C11_Witness ==
    /\ call.op = "Student.delete"
    /\ ret = FALSE
    /\ \E eid \in DOMAIN enrollments :
           enrollments[eid].student_id = call.args[1]
    /\ \E gid \in DOMAIN grades : grades[gid].student_id = call.args[1]

(***************************************************************************)
(* C15: Student.search(q) returns every student when q is empty; for a     *)
(* non-empty q it returns exactly the students whose name or whose email   *)
(* contains q as a substring, upper and lower case of a letter being taken *)
(* as the same; and it leaves the store as it was.                         *)
(***************************************************************************)
\* characters a and b are the same letter, whatever their case
SameLetter(a, b) ==
    \/ a = b
    \/ \E i \in 1..Len(Uppercase) : {a, b} = {Uppercase[i], Lowercase[i]}

\* text contains q, whatever the case of the letters
ContainsAnyCase(q, text) ==
    \E i \in 0..(Len(text) - Len(q)) :
        \A k \in 1..Len(q) : SameLetter(text[i + k], q[k])

\* the students Student.search(q) is to return
Sought(q) ==
    IF q = << >> THEN DOMAIN students
    ELSE {id \in DOMAIN students :
             \/ ContainsAnyCase(q, students[id].name)
             \/ ContainsAnyCase(q, students[id].email)}

C15_SearchResult ==
    /\ [](call.op = "Student.search" =>
            /\ {ret[i] : i \in 1..Len(ret)}
                   = {students[id] : id \in Sought(call.args[1])}
            /\ Len(ret) = Cardinality(Sought(call.args[1])))
    /\ [][call'.op = "Student.search" => store' = store]_vars

\* a search has returned a student whose email alone matches, and only in
\* another case than the query's, and has left another student out
C15_Witness ==
    /\ call.op = "Student.search"
    /\ call.args[1] # << >>
    /\ Len(ret) < Cardinality(DOMAIN students)
    /\ \E i \in 1..Len(ret) :
          /\ ~ContainsAnyCase(call.args[1], ret[i].name)
          /\ ~Contains(call.args[1], ret[i].email)

(***************************************************************************)
(* C12: a request the route layer rejects leaves the four tables and the   *)
(* four counters exactly as they were.  A request is rejected when the     *)
(* route flashes a message of category danger or warning, or when the      *)
(* store operation it goes through to does not find the id (update         *)
(* returns the absent value, delete returns false) and the route flashes   *)
(* "not found" for it.                                                     *)
(***************************************************************************)
RouteNames ==
    {"index", "students", "new_student", "create_student", "edit_student",
     "update_student", "delete_student", "courses", "new_course",
     "create_course", "edit_course", "update_course", "delete_course",
     "enrollments", "new_enrollment", "create_enrollment",
     "delete_enrollment", "grades", "new_grade", "create_grade",
     "edit_grade", "update_grade", "delete_grade", "reports"}

C12_RejectionLeavesStore ==
    [][(\/ call'.op \in RouteNames /\ ret'.flash \in {"danger", "warning"}
        \/ call'.op \in {"Student.update", "Course.update"} /\ ret' = None
        \/ /\ call'.op \in {"Student.delete", "Course.delete",
                            "Enrollment.delete", "Grade.delete"}
           /\ ret' = FALSE)
       => store' = store]_vars

\* create_grade has rejected a grade for a student and a course that both
\* exist, the student being enrolled in another course only
C12_Witness ==
    /\ call.op = "create_grade"
    /\ ret.flash = "danger"
    /\ ret.message = "Student is not enrolled in the selected course."
    /\ \E s \in DOMAIN students, c \in DOMAIN courses :
          /\ Enrollment_matching(s, c) = {}
          /\ Enrollment_get_by_student(s) # {}

(***************************************************************************)
(* C13: in every state the student routes create_student, update_student   *)
(* and delete_student reach from the empty store, no two distinct student  *)
(* records have emails that are equal up to the case of their letters.     *)
(***************************************************************************)
\* texts x and y are equal, whatever the case of the letters
SameAnyCase(x, y) ==
    Len(x) = Len(y) /\ \A i \in 1..Len(x) : SameLetter(x[i], y[i])

C13_EmailsDifferAnyCase ==
    \A a \in DOMAIN students, b \in DOMAIN students :
        a # b => ~SameAnyCase(students[a].email, students[b].email)

\* update_student has given a student an email in upper case while another
\* student is in the table
C13_Witness ==
    /\ call.op = "Student.update"
    /\ ret # None
    /\ ret.email = <<"J", "@", "X">>
    /\ Cardinality(DOMAIN students) >= 2

(***************************************************************************)
(* C14: from the empty store and through the routes only, every call to    *)
(* Enrollment.create and to Grade.create is made with the id of a student  *)
(* and the id of a course that are both in the store when it is made, and  *)
(* in every state every enrollment and every grade refers to a student and *)
(* to a course that are in the store.                                      *)
(***************************************************************************)
\* every record of table d refers to a stored student and a stored course
RefersToStored(d) ==
    \A id \in DOMAIN d : /\ d[id].student_id \in DOMAIN students
                         /\ d[id].course_id \in DOMAIN courses

C14_ForeignKeysExist ==
    /\ [](RefersToStored(enrollments) /\ RefersToStored(grades))
    /\ [][call'.op \in {"Enrollment.create", "Grade.create"}
          => /\ call'.args[1] \in DOMAIN students
             /\ call'.args[2] \in DOMAIN courses]_vars

\* Grade.create has been called for a student and a course that are in
\* the store, and the grade it returned is in the store
C14_Witness ==
    /\ call.op = "Grade.create"
    /\ call.args[1] \in DOMAIN students
    /\ call.args[2] \in DOMAIN courses
    /\ Stored(grades, ret)

(***************************************************************************)
(* C16: in the response of the reports route, every student who has at     *)
(* least one grade on a course that is in the store is counted in the      *)
(* average GPA: the students the filter leaves out are students without    *)
(* grades.                                                                 *)
(***************************************************************************)
C16_GradedStudentsAveraged ==
    call.op = "reports" =>
        \A s \in DOMAIN students :
            (\E gid \in DOMAIN grades :
                /\ grades[gid].student_id = s
                /\ grades[gid].course_id \in DOMAIN courses)
            => s \in ret.context.gpas

(***************************************************************************)
(* C17: in every state the routes reach from the empty store, every grade  *)
(* has an enrollment with the same student_id and course_id.               *)
(***************************************************************************)
C17_GradeHasEnrollment ==
    \A gid \in DOMAIN grades :
        Enrollment_matching(grades[gid].student_id, grades[gid].course_id) # {}

\* delete_enrollment has removed an enrollment and with it the only grade
\* ever created, the student and the course staying in the store
C17_Witness ==
    /\ call.op = "Enrollment.delete"
    /\ ret = TRUE
    /\ issued.grade # {}
    /\ DOMAIN grades = {}
    /\ DOMAIN students # {}
    /\ DOMAIN courses # {}

(***************************************************************************)
(* C18: the listing routes index, students, courses, enrollments, grades,  *)
(* new_grade and reports leave the keys of every table, the four counters  *)
(* and every attribute of every stored record as they were, but for the    *)
(* display fields gpa, enrollment_count, student_name, course_code and     *)
(* course_name, which they add to the stored records or overwrite.         *)
(***************************************************************************)
ListingRoutes ==
    {"index", "students", "courses", "enrollments", "grades", "new_grade",
     "reports"}

DisplayFields ==
    {"gpa", "enrollment_count", "student_name", "course_code", "course_name"}

\* table e has the records of table d, with display fields added or
\* overwritten and nothing else changed
OnlyDisplayWritten(d, e) ==
    /\ DOMAIN e = DOMAIN d
    /\ \A id \in DOMAIN d :
          /\ DOMAIN d[id] \subseteq DOMAIN e[id]
          /\ (DOMAIN e[id]) \ (DOMAIN d[id]) \subseteq DisplayFields
          /\ \A key \in (DOMAIN d[id]) \ DisplayFields : e[id][key] = d[id][key]

C18_ListingsWriteDisplayOnly ==
    [][call'.op \in ListingRoutes
       => /\ counters' = counters
          /\ OnlyDisplayWritten(students, students')
          /\ OnlyDisplayWritten(courses, courses')
          /\ OnlyDisplayWritten(enrollments, enrollments')
          /\ OnlyDisplayWritten(grades, grades')]_vars

\* the enrollments listing has written the new name of a student to an
\* enrollment, while a grade still carries the name the grades listing
\* copied before update_student changed it
C18_Witness ==
    /\ call.op = "enrollments"
    /\ \E eid \in DOMAIN enrollments, gid \in DOMAIN grades :
          /\ enrollments[eid].student_id = grades[gid].student_id
          /\ "student_name" \in DOMAIN grades[gid]
          /\ enrollments[eid].student_name
                 = students[enrollments[eid].student_id].name
          /\ grades[gid].student_name # enrollments[eid].student_name

====
